---- MODULE Spec2Model ----
(***************************************************************************)
(* Model of libcf's loss functions (src/model/loss.hpp): the LossType      *)
(* enumeration, the six Loss subclasses, the factory Loss::create, and     *)
(* callers that share instances between threads.                           *)
(*                                                                         *)
(* Numbers.  A C++ double is modelled by an exact fixed-point integer.     *)
(*   - Scores (pred, truth of Square, Log, Hinge, SquaredHinge and         *)
(*     CrossEntropy) are counted in units of 1/SC.  A product of two       *)
(*     scores is counted in units of 1/(SC*SC), and so on: every operator  *)
(*     states the unit of what it returns.                                 *)
(*   - Probabilities (pred, truth of Logistic) are counted in units of     *)
(*     1/LDen, fine enough to have points below the floor 0.0001.          *)
(*   - std::log is computed bit by bit in fixed point (NegLn).             *)
(*   - std::exp and std::log1p span e^-30 .. e^18, which no 32-bit         *)
(*     fixed-point integer holds; their applications are kept as terms     *)
(*     lin + coef * fn(arg) with exact lin, coef and arg.                  *)
(***************************************************************************)
EXTENDS Integers, Sequences, FiniteSets, TLC

\* ------------------------------------------------------------ bounds

SC == 2            \* resolution of the score grid: scores are k/SC
MaxScore == 2      \* margin-family scores range over -MaxScore .. MaxScore
MaxOver == 1       \* grid points beyond the +-18 threshold, in 1/SC steps
FloorSub == 3      \* grid points per 0.0001 of a Logistic probability
MaxStep == 2       \* largest step d of the probe, in grid steps

\* ------------------------------------------------------------ LossType

SQUARE == 0
LOGISTIC == 1
LOG == 2
HINGE == 3
SQUARED_HINGE == 4
CROSS_ENTROPY == 5

\* Values a LossType variable can hold: the six enumerators and, by a cast
\* from an integer, values outside them.
LossTypeValues == (0 - 1) .. (CROSS_ENTROPY + 1)

\* ------------------------------------------------------------ numbers

One == SC                    \* 1.0, unit 1/SC
One2 == SC * SC              \* 1.0, unit 1/(SC*SC)

FloorDen == 10000            \* 0.0001 == 1/FloorDen
LDen == FloorDen * FloorSub  \* 1.0, unit 1/LDen
LFloor == LDen \div FloorDen \* 0.0001, unit 1/LDen

Thresh == 18                 \* the |a| = 18 switch of Log and CrossEntropy

Max(a, b) == IF a < b THEN b ELSE a

\* std::log in fixed point.  MantBits fraction bits of the mantissa, LogBits
\* fraction bits of the binary logarithm.
MantBits == 14
LogBits == 10
Ln2Num == 6931               \* ln 2 == Ln2Num / Ln2Den
Ln2Den == 10000

RECURSIVE Pow2(_)
Pow2(n) == IF n = 0 THEN 1 ELSE 2 * Pow2(n - 1)

\* The k >= 0 with 1 <= 2^k * (a/LDen) < 2, for 0 < a <= LDen.
RECURSIVE Log2Shift(_)
Log2Shift(a) == IF a >= LDen THEN 0 ELSE 1 + Log2Shift(2 * a)

\* The first n fraction bits of log2(m / 2^MantBits), 1 <= m / 2^MantBits < 2,
\* by repeated squaring.
RECURSIVE Log2Frac(_, _)
Log2Frac(m, n) ==
  IF n = 0 THEN 0
  ELSE LET y == (m * m) \div Pow2(MantBits)
       IN  IF y >= Pow2(MantBits + 1)
           THEN Pow2(n - 1) + Log2Frac(y \div 2, n - 1)
           ELSE Log2Frac(y, n - 1)

\* -log(a/LDen) for 0 < a <= LDen, unit 1/2^LogBits.
NegLn(a) ==
  LET k == Log2Shift(a)
      m == (a * Pow2(k) * Pow2(MantBits)) \div LDen
      l2 == k * Pow2(LogBits) - Log2Frac(m, LogBits)
  IN  (l2 * Ln2Num) \div Ln2Den

\* lin + coef * fn(arg): an application of std::exp or std::log1p kept as a term.
\*   fn = "exp"      : exp(arg)
\*   fn = "log1pexp" : log1p(exp(arg))
\*   fn = "inv1pexp" : 1 / (1 + exp(arg))
\*   fn = "none"     : no application, the value is lin
Term(lin, coef, fn, arg) == [lin |-> lin, coef |-> coef, fn |-> fn, arg |-> arg]

\* What a call hands back: a double, or the process aborted by a failed CHECK.
\* br names the return statement that produced the value.
Ok(br, val) == [st |-> "ok", br |-> br, val |-> val]
Fatal == [st |-> "fatal", br |-> "CHECK", val |-> 0]

\* ------------------------------------------------------------ SquareLoss
\* l(a, y) = (y - a)^2.  pred, truth in 1/SC.

SquareLoss_loss_type == "Square"

\* unit 1/(SC*SC)
SquareLoss_evaluate(pred, truth) ==
  LET err == truth - pred
  IN  Ok("return", err * err)

\* SquareLoss::gradient with the sign of the error flipped.
SquareLoss_gradient_flipped(pred, truth) == Ok("return", (0 - 2) * (pred - truth))

\* unit 1/SC
SquareLoss_gradient(pred, truth) == Ok("return", (0 - 2) * (truth - pred))

SquareLoss_predict(x) == Ok("return", x)

\* ------------------------------------------------------------ LogisticLoss
\* l(p, y) = - y log(p) - (1 - y) log(1 - p).  pred, truth in 1/LDen.

LogisticLoss_loss_type == "Logistic"

\* LogisticLoss::evaluate with the floor a digit too small to reach the grid's
\* smallest probabilities.
LogisticLoss_evaluate_low_floor(pred, truth) ==
  IF ~(pred >= 0 /\ pred <= LDen) THEN Fatal
  ELSE IF ~(truth = LDen \/ truth = 0) THEN Fatal
  ELSE IF truth = 0 THEN Ok("truth==0", NegLn(Max(1, LDen - pred)))
  ELSE IF truth = LDen THEN Ok("truth==1", NegLn(Max(1, pred)))
  ELSE Ok("return 0", 0)

\* unit 1/2^LogBits
LogisticLoss_evaluate(pred, truth) ==
  IF ~(pred >= 0 /\ pred <= LDen) THEN Fatal
  ELSE IF ~(truth = LDen \/ truth = 0) THEN Fatal
  ELSE IF truth = 0 THEN Ok("truth==0", NegLn(Max(LFloor, LDen - pred)))
  ELSE IF truth = LDen THEN Ok("truth==1", NegLn(Max(LFloor, pred)))
  ELSE Ok("return 0", 0)

\* LogisticLoss::gradient with the closed-interval CHECK of evaluate.
LogisticLoss_gradient_closed(pred, truth) ==
  IF ~(pred >= 0 /\ pred <= LDen) THEN Fatal
  ELSE IF ~(truth = LDen \/ truth = 0) THEN Fatal
  ELSE Ok("return", [num |-> pred - truth, den |-> pred * (LDen - pred)])

\* The quotient num/den, num in 1/LDen and den in 1/(LDen*LDen).
LogisticLoss_gradient(pred, truth) ==
  IF ~(pred > 0 /\ pred < LDen) THEN Fatal
  ELSE IF ~(truth = LDen \/ truth = 0) THEN Fatal
  ELSE Ok("return", [num |-> pred - truth, den |-> pred * (LDen - pred)])

LogisticLoss_predict(x) == Ok("return", x)

\* ------------------------------------------------------------ CrossEntropyLoss
\* l(a, y) = (1 - y) * a + log(1 + exp(-a)).  pred, truth in 1/SC.

CrossEntropyLoss_loss_type == "CrossEntropy"

\* lin in 1/(SC*SC), arg in 1/SC
CrossEntropyLoss_evaluate(pred, truth) ==
  LET ret == (One - truth) * pred
  IN  IF pred > Thresh * One THEN Ok(">18", Term(ret, 1, "exp", 0 - pred))
      ELSE IF pred < 0 - Thresh * One
        THEN Ok("<-18", Term(ret - pred * One, 0, "none", 0))
      ELSE Ok("else", Term(ret, 1, "log1pexp", 0 - pred))

\* lin in 1/SC, arg in 1/SC
CrossEntropyLoss_gradient(pred, truth) ==
  IF pred < 0 - Thresh * One THEN Ok("<-18", Term(0 - truth, 1, "exp", pred))
  ELSE IF pred > Thresh * One THEN Ok(">18", Term(One - truth, 0, "none", 0))
  ELSE Ok("else", Term(0 - truth, 1, "inv1pexp", 0 - pred))

CrossEntropyLoss_predict(x) == Ok("return", Term(0, 1, "inv1pexp", 0 - x))

\* ------------------------------------------------------------ LogLoss
\* l(a, y) = log(1 + exp(-a * y)).  pred, truth in 1/SC, z in 1/(SC*SC).

LogLoss_loss_type == "Log"

\* LogLoss::evaluate with the large-positive test z >= 18.
LogLoss_evaluate_ge(pred, truth) ==
  LET z == pred * truth
  IN  IF z >= Thresh * One2 THEN Ok(">18", Term(0, 1, "exp", 0 - z))
      ELSE IF z < 0 - Thresh * One2 THEN Ok("<-18", Term(0 - z, 0, "none", 0))
      ELSE Ok("else", Term(0, 1, "log1pexp", 0 - z))

\* lin, arg in 1/(SC*SC)
LogLoss_evaluate(pred, truth) ==
  LET z == pred * truth
  IN  IF z > Thresh * One2 THEN Ok(">18", Term(0, 1, "exp", 0 - z))
      ELSE IF z < 0 - Thresh * One2 THEN Ok("<-18", Term(0 - z, 0, "none", 0))
      ELSE Ok("else", Term(0, 1, "log1pexp", 0 - z))

\* lin, coef in 1/SC, arg in 1/(SC*SC)
LogLoss_gradient(pred, truth) ==
  LET z == pred * truth
  IN  IF z > Thresh * One2 THEN Ok(">18", Term(0, 0 - truth, "exp", 0 - z))
      ELSE IF z < 0 - Thresh * One2 THEN Ok("<-18", Term(0 - truth, 0, "none", 0))
      ELSE Ok("else", Term(0, 0 - truth, "inv1pexp", z))

LogLoss_predict(x) == Ok("return", x)

\* ------------------------------------------------------------ HingeLoss
\* l(a, y) = max(0, 1 - a*y).  pred, truth in 1/SC, z in 1/(SC*SC).

HingeLoss_loss_type == "Hinge"

\* unit 1/(SC*SC)
HingeLoss_evaluate(pred, truth) ==
  LET z == pred * truth
  IN  IF z > One2 THEN Ok("z>1", 0) ELSE Ok("else", One2 - z)

\* HingeLoss::gradient with the sign of truth flipped.
HingeLoss_gradient_flipped(pred, truth) ==
  LET z == pred * truth
  IN  IF z > One2 THEN Ok("z>1", 0) ELSE Ok("else", truth)

\* HingeLoss::gradient with the margin test z >= 1.
HingeLoss_gradient_ge(pred, truth) ==
  LET z == pred * truth
  IN  IF z >= One2 THEN Ok("z>1", 0) ELSE Ok("else", 0 - truth)

\* unit 1/SC
HingeLoss_gradient(pred, truth) ==
  LET z == pred * truth
  IN  IF z > One2 THEN Ok("z>1", 0) ELSE Ok("else", 0 - truth)

HingeLoss_predict(x) == Ok("return", x)

\* ------------------------------------------------------------ SquaredHingeLoss
\* l(a, y) = 1/2 * max(0, 1 - a*y)^2.  pred, truth in 1/SC, z in 1/(SC*SC).

SquaredHingeLoss_loss_type == "SquaredHinge"

\* SquaredHingeLoss::evaluate without the factor 0.5.
SquaredHingeLoss_evaluate_no_half(pred, truth) ==
  LET z == pred * truth
  IN  IF z > One2 THEN Ok("z>1", 0)
      ELSE LET d == One2 - z
           IN  Ok("else", 2 * d * d)

\* unit 1/(2*SC^4): 0.5 * d * d is d * d halves of 1/SC^4
SquaredHingeLoss_evaluate(pred, truth) ==
  LET z == pred * truth
  IN  IF z > One2 THEN Ok("z>1", 0)
      ELSE LET d == One2 - z
           IN  Ok("else", d * d)

\* unit 1/SC^3
SquaredHingeLoss_gradient(pred, truth) ==
  LET z == pred * truth
  IN  IF z > One2 THEN Ok("z>1", 0) ELSE Ok("else", (0 - truth) * (One2 - z))

SquaredHingeLoss_predict(x) == Ok("return", x)

\* ------------------------------------------------------------ Loss

\* Loss::create with the switch read by position, not by enumerator.
Loss_create_by_position(lt) ==
  CASE lt = 0 -> "SquareLoss"
    [] lt = 1 -> "LogisticLoss"
    [] lt = 2 -> "CrossEntropyLoss"
    [] lt = 3 -> "LogLoss"
    [] lt = 4 -> "HingeLoss"
    [] lt = 5 -> "SquaredHingeLoss"
    [] OTHER -> "SquareLoss"

\* The dynamic type of the object Loss::create(lt) allocates.
Loss_create(lt) ==
  CASE lt = SQUARE -> "SquareLoss"
    [] lt = LOGISTIC -> "LogisticLoss"
    [] lt = CROSS_ENTROPY -> "CrossEntropyLoss"
    [] lt = LOG -> "LogLoss"
    [] lt = HINGE -> "HingeLoss"
    [] lt = SQUARED_HINGE -> "SquaredHingeLoss"
    [] OTHER -> "SquareLoss"

\* The virtual calls, dispatched on the dynamic type.
Loss_loss_type(vptr) ==
  CASE vptr = "SquareLoss" -> Ok("return", SquareLoss_loss_type)
    [] vptr = "LogisticLoss" -> Ok("return", LogisticLoss_loss_type)
    [] vptr = "CrossEntropyLoss" -> Ok("return", CrossEntropyLoss_loss_type)
    [] vptr = "LogLoss" -> Ok("return", LogLoss_loss_type)
    [] vptr = "HingeLoss" -> Ok("return", HingeLoss_loss_type)
    [] vptr = "SquaredHingeLoss" -> Ok("return", SquaredHingeLoss_loss_type)

Loss_evaluate(vptr, pred, truth) ==
  CASE vptr = "SquareLoss" -> SquareLoss_evaluate(pred, truth)
    [] vptr = "LogisticLoss" -> LogisticLoss_evaluate(pred, truth)
    [] vptr = "CrossEntropyLoss" -> CrossEntropyLoss_evaluate(pred, truth)
    [] vptr = "LogLoss" -> LogLoss_evaluate(pred, truth)
    [] vptr = "HingeLoss" -> HingeLoss_evaluate(pred, truth)
    [] vptr = "SquaredHingeLoss" -> SquaredHingeLoss_evaluate(pred, truth)

Loss_gradient(vptr, pred, truth) ==
  CASE vptr = "SquareLoss" -> SquareLoss_gradient(pred, truth)
    [] vptr = "LogisticLoss" -> LogisticLoss_gradient(pred, truth)
    [] vptr = "CrossEntropyLoss" -> CrossEntropyLoss_gradient(pred, truth)
    [] vptr = "LogLoss" -> LogLoss_gradient(pred, truth)
    [] vptr = "HingeLoss" -> HingeLoss_gradient(pred, truth)
    [] vptr = "SquaredHingeLoss" -> SquaredHingeLoss_gradient(pred, truth)

Loss_predict(vptr, x) ==
  CASE vptr = "SquareLoss" -> SquareLoss_predict(x)
    [] vptr = "LogisticLoss" -> LogisticLoss_predict(x)
    [] vptr = "CrossEntropyLoss" -> CrossEntropyLoss_predict(x)
    [] vptr = "LogLoss" -> LogLoss_predict(x)
    [] vptr = "HingeLoss" -> HingeLoss_predict(x)
    [] vptr = "SquaredHingeLoss" -> SquaredHingeLoss_predict(x)

\* ------------------------------------------------------------ callers

\* The arguments the callers pass, per dynamic type: the grid of doubles, as
\* pairs <<pred, truth>>.
BigScores ==
  {s * (Thresh * One + k) : s \in {0 - 1, 1}, k \in (0 - 1) .. MaxOver}
    \cup {0 - One, 0, One}

SquareScores == {k * One : k \in (0 - 1) .. 1} \cup {3 * One, 5 * One}

\* Probabilities from below the floor up to 3/4.  The fixed-point logarithm
\* resolves 1/2^LogBits, so the points above the floor are kept apart.
LogisticPoints ==
  1 .. (LFloor + 1) \cup {2 * LFloor, LDen \div 4, LDen \div 2, 3 * (LDen \div 4)}

LogisticInputs ==
  {<<p, LDen>> : p \in LogisticPoints}
    \cup {<<LDen - p, 0>> : p \in LogisticPoints}
    \cup ({0, LDen} \X {0, LDen})
    \cup ({0 - LFloor, LDen + LDen \div 2} \X {0, LDen})
    \cup ({0, LDen \div 2, LDen + LDen \div 2} \X {LDen \div 2})

Inputs(vptr) ==
  CASE vptr = "SquareLoss" -> SquareScores \X SquareScores
    [] vptr = "LogisticLoss" -> LogisticInputs
    [] vptr \in {"CrossEntropyLoss", "LogLoss"} -> BigScores \X {0 - One, 0, 1, One}
    [] OTHER -> ((0 - MaxScore * One) .. (MaxScore * One)) \X {0 - One, 0, 1, One}

Preds(vptr) == {in[1] : in \in Inputs(vptr)}

Threads == {1, 2}

VARIABLES
  lt,      \* the LossType the run is configured with
  insts,   \* the Loss objects created so far: a Loss object holds its vptr only
  frame,   \* per thread, the call it is in: arguments and return value
  halted,  \* a CHECK failed and aborted the process
  probe    \* the single-threaded probe of SpecProbe: its position and its log

vars == <<lt, insts, frame, halted, probe>>

NoRet == [st |-> "none", br |-> "none", val |-> 0]
Idle == [pc |-> "idle", self |-> 0, op |-> "none", pred |-> 0, truth |-> 0, ret |-> NoRet]
NoProbe == [pc |-> 0, pred |-> 0, truth |-> 0, d |-> 0, log |-> <<>>]

\* One thread that probes a loss the way a unit test does: the derivative and
\* the loss at (pred, truth), the loss one step d further, the link and the
\* name; then the same calls again on the same instance, and once more on a
\* freshly created instance.  dx scales the step added to pred.
ProbeScript ==
  << [h |-> 1, op |-> "gradient", dx |-> 0],
     [h |-> 1, op |-> "evaluate", dx |-> 0],
     [h |-> 1, op |-> "evaluate", dx |-> 1],
     [h |-> 1, op |-> "predict", dx |-> 0],
     [h |-> 1, op |-> "loss_type", dx |-> 0],
     [h |-> 1, op |-> "gradient", dx |-> 0],
     [h |-> 1, op |-> "evaluate", dx |-> 0],
     [h |-> 1, op |-> "predict", dx |-> 0],
     [h |-> 1, op |-> "loss_type", dx |-> 0],
     [h |-> 2, op |-> "gradient", dx |-> 0],
     [h |-> 2, op |-> "evaluate", dx |-> 0],
     [h |-> 2, op |-> "predict", dx |-> 0],
     [h |-> 2, op |-> "loss_type", dx |-> 0] >>

\* The virtual call of op on an object of dynamic type vptr.
Dispatch(vptr, op, pred, truth) ==
  CASE op = "evaluate" -> Loss_evaluate(vptr, pred, truth)
    [] op = "gradient" -> Loss_gradient(vptr, pred, truth)
    [] op = "predict" -> Loss_predict(vptr, pred)
    [] op = "loss_type" -> Loss_loss_type(vptr)

\* A body that keeps its argument in a member of the shared object instead of
\* on its own stack: while another thread is inside the same method with other
\* arguments, the body computes on that thread's arguments.
Body_shared_member(vptr, op, pred, truth) ==
  LET busy == {u \in Threads :
                 /\ frame[u].pc = "called" /\ frame[u].op = op
                 /\ (frame[u].pred # pred \/ frame[u].truth # truth)}
  IN  IF busy = {} THEN Dispatch(vptr, op, pred, truth)
      ELSE LET u == CHOOSE u \in busy : TRUE
           IN  Dispatch(vptr, op, frame[u].pred, frame[u].truth)

\* A body that reads pred from a static the previous call of the process
\* left behind: every call after the first computes on the previous call's pred.
Body_stale_static(vptr, op, pred, truth) ==
  IF probe.pc <= 1 THEN Dispatch(vptr, op, pred, truth)
  ELSE Dispatch(vptr, op, probe.pred + ProbeScript[probe.pc - 1].dx * probe.d, truth)

\* What the body of the method returns: it reads its arguments and the vptr of
\* the object it is called on, and nothing else.
Body(vptr, op, pred, truth) == Dispatch(vptr, op, pred, truth)

\* ------------------------------------------------------------ Spec
\* A training run: the loss is created once from the configured LossType and
\* the worker threads call it with no synchronisation.

Init ==
  /\ lt \in LossTypeValues
  /\ insts = <<>>
  /\ frame = [t \in Threads |-> Idle]
  /\ halted = FALSE
  /\ probe = NoProbe

\* std::shared_ptr<Loss> p = Loss::create(lt), once per run
Create ==
  /\ ~halted
  /\ insts = <<>>
  /\ insts' = Append(insts, [vptr |-> Loss_create(lt)])
  /\ UNCHANGED <<lt, frame, halted, probe>>

\* Thread t enters a virtual call on instance h.
Enter(t, h, op, pred, truth) ==
  /\ ~halted
  /\ frame[t].pc = "idle"
  /\ h \in DOMAIN insts
  /\ frame' = [frame EXCEPT ![t] =
       [pc |-> "called", self |-> h, op |-> op, pred |-> pred, truth |-> truth,
        ret |-> NoRet]]
  /\ UNCHANGED <<lt, insts, halted, probe>>

CallEvaluate(t) ==
  \E h \in DOMAIN insts :
    \E in \in Inputs(insts[h].vptr) : Enter(t, h, "evaluate", in[1], in[2])

CallGradient(t) ==
  \E h \in DOMAIN insts :
    \E in \in Inputs(insts[h].vptr) : Enter(t, h, "gradient", in[1], in[2])

CallPredict(t) ==
  \E h \in DOMAIN insts :
    \E x \in Preds(insts[h].vptr) : Enter(t, h, "predict", x, 0)

CallLossType(t) ==
  \E h \in DOMAIN insts : Enter(t, h, "loss_type", 0, 0)

\* What thread t needs to run the body of the method it entered: the methods
\* take no lock and wait for nothing.
CanRun(t) == ~halted /\ frame[t].pc = "called"

\* Thread t runs the body of the method it entered.  A failed CHECK aborts the
\* process; otherwise the value is returned to the caller.
Run(t) ==
  /\ CanRun(t)
  /\ LET f == frame[t]
         r == Body(insts[f.self].vptr, f.op, f.pred, f.truth)
     IN  /\ frame' = [frame EXCEPT ![t].ret = r,
                                   ![t].pc = IF r.st = "fatal" THEN "aborted" ELSE "done"]
         /\ halted' = (r.st = "fatal")
  /\ UNCHANGED <<lt, insts, probe>>

\* The caller of thread t drops the returned value.
Return(t) ==
  /\ ~halted
  /\ frame[t].pc = "done"
  /\ frame' = [frame EXCEPT ![t] = Idle]
  /\ UNCHANGED <<lt, insts, halted, probe>>

Next ==
  \/ Create
  \/ \E t \in Threads : CallEvaluate(t)
  \/ \E t \in Threads : CallGradient(t)
  \/ \E t \in Threads : CallPredict(t)
  \/ \E t \in Threads : CallLossType(t)
  \/ \E t \in Threads : Run(t)
  \/ \E t \in Threads : Return(t)

Spec == Init /\ [][Next]_vars

\* ------------------------------------------------------------ SpecProbe
InitProbe ==
  /\ lt \in LossTypeValues
  /\ insts = <<>>
  /\ frame = [t \in Threads |-> Idle]
  /\ halted = FALSE
  /\ \E in \in Inputs(Loss_create(lt)), d \in 1 .. MaxStep :
       probe = [pc |-> 1, pred |-> in[1], truth |-> in[2], d |-> d, log |-> <<>>]

ProbeRunning == ~halted /\ probe.pc \in DOMAIN ProbeScript

\* The probe creates the instance its next call needs.
ProbeCreate ==
  /\ ProbeRunning
  /\ ProbeScript[probe.pc].h > Len(insts)
  /\ insts' = Append(insts, [vptr |-> Loss_create(lt)])
  /\ UNCHANGED <<lt, frame, halted, probe>>

\* The probe makes its next call, a call of op, and logs what it returns.
ProbeCall(op) ==
  /\ ProbeRunning
  /\ LET c == ProbeScript[probe.pc]
     IN  /\ c.op = op
         /\ c.h \in DOMAIN insts
         /\ LET r == Body(insts[c.h].vptr, op, probe.pred + c.dx * probe.d, probe.truth)
            IN  /\ probe' = [probe EXCEPT !.pc = @ + 1, !.log = Append(@, r)]
                /\ halted' = (r.st = "fatal")
  /\ UNCHANGED <<lt, insts, frame>>

NextProbe ==
  \/ ProbeCreate
  \/ ProbeCall("evaluate")
  \/ ProbeCall("gradient")
  \/ ProbeCall("predict")
  \/ ProbeCall("loss_type")

SpecProbe == InitProbe /\ [][NextProbe]_vars

\* ------------------------------------------------------------ properties

Finished(t) == frame[t].pc \in {"done", "aborted"}
Returned(t) == frame[t].pc = "done"
VptrOf(t) == insts[frame[t].self].vptr
In(t, vptr, op) == Finished(t) /\ VptrOf(t) = vptr /\ frame[t].op = op

\* C1.  Logistic domain validation: evaluate aborts exactly when pred is
\* outside [0,1] or truth is neither 0 nor 1; gradient aborts exactly when pred
\* is outside (0,1) or truth is neither 0 nor 1; every other call returns a value.
LogisticDomain ==
  \A t \in Threads :
    LET f == frame[t]
        badTruth == f.truth # 0 /\ f.truth # LDen
    IN  /\ In(t, "LogisticLoss", "evaluate") =>
             /\ (f.ret.st = "fatal") <=> (f.pred < 0 \/ f.pred > LDen \/ badTruth)
             /\ (f.ret.st = "ok") <=> ~(f.pred < 0 \/ f.pred > LDen \/ badTruth)
        /\ In(t, "LogisticLoss", "gradient") =>
             /\ (f.ret.st = "fatal") <=> (f.pred <= 0 \/ f.pred >= LDen \/ badTruth)
             /\ (f.ret.st = "ok") <=> ~(f.pred <= 0 \/ f.pred >= LDen \/ badTruth)

\* evaluate accepted pred = 1, and gradient then aborted on the same pred.
LogisticDomainWitness ==
  \E t, u \in Threads :
    /\ In(t, "LogisticLoss", "evaluate") /\ frame[t].pred = LDen
    /\ frame[t].truth = LDen /\ frame[t].ret.st = "ok"
    /\ In(u, "LogisticLoss", "gradient") /\ frame[u].pred = LDen
    /\ frame[u].truth = LDen /\ frame[u].ret.st = "fatal"

\* The variant name the spec gives each tag, Square for every other value.
NameOfTag(tag) ==
  CASE tag = SQUARE -> "Square"
    [] tag = LOGISTIC -> "Logistic"
    [] tag = LOG -> "Log"
    [] tag = HINGE -> "Hinge"
    [] tag = SQUARED_HINGE -> "SquaredHinge"
    [] tag = CROSS_ENTROPY -> "CrossEntropy"
    [] OTHER -> "Square"

\* C2.  Factory selection: the instance create(tag) returns names itself after
\* the tag's variant, and "Square" for a tag outside the six; create raises no
\* error for any tag.
FactorySelection ==
  /\ (insts = <<>> /\ ~halted) => ENABLED Create
  /\ \A t \in Threads :
       (Finished(t) /\ frame[t].op = "loss_type") =>
         frame[t].ret = Ok("return", NameOfTag(lt))

\* An instance created from a tag outside the enumeration was asked its name.
FactorySelectionWitness ==
  \E t \in Threads :
    /\ lt \notin SQUARE .. CROSS_ENTROPY
    /\ Returned(t) /\ frame[t].op = "loss_type" /\ frame[t].ret.val = "Square"

\* C5.  Hinge, truth in {-1, 1}, z = pred*truth: z > 1 gives loss 0 and
\* gradient 0; z <= 1 (z == 1 included) gives loss 1 - z and gradient -truth;
\* evaluate(2,1) == 0, evaluate(0,1) == 1, gradient(0,1) == -1.
HingeContract ==
  \A t \in Threads :
    LET f == frame[t]
        z == f.pred * f.truth
    IN  (Finished(t) /\ VptrOf(t) = "HingeLoss" /\ f.truth \in {0 - One, One}) =>
          /\ f.op = "evaluate" =>
               /\ f.ret.st = "ok"
               /\ z > One2 => f.ret.val = 0
               /\ z <= One2 => f.ret.val = One2 - z
               /\ (f.pred = 2 * One /\ f.truth = One) => f.ret.val = 0
               /\ (f.pred = 0 /\ f.truth = One) => f.ret.val = One2
          /\ f.op = "gradient" =>
               /\ f.ret.st = "ok"
               /\ z > One2 => f.ret.val = 0
               /\ z <= One2 => f.ret.val = 0 - f.truth
               /\ (f.pred = 0 /\ f.truth = One) => f.ret.val = 0 - One

\* gradient returned at the margin boundary z == 1.
HingeContractWitness ==
  \E t \in Threads :
    /\ In(t, "HingeLoss", "gradient") /\ Returned(t)
    /\ frame[t].truth = One /\ frame[t].pred * frame[t].truth = One2

\* C6.  SquaredHinge, z = pred*truth: evaluate == 0.5 * max(0, 1 - z)^2 and
\* gradient == -truth * max(0, 1 - z); at z == 1 the inside-margin branch is
\* taken and gives 0 for both, as the z > 1 branch does.
\* (evaluate in halves of 1/SC^4, gradient in 1/SC^3.)
SquaredHingeContract ==
  \A t \in Threads :
    LET f == frame[t]
        z == f.pred * f.truth
        m == Max(0, One2 - z)
    IN  (Finished(t) /\ VptrOf(t) = "SquaredHingeLoss") =>
          /\ f.op = "evaluate" =>
               /\ f.ret.st = "ok" /\ f.ret.val = m * m
               /\ z = One2 => (f.ret.br = "else" /\ f.ret.val = 0)
               /\ z > One2 => f.ret.val = 0
          /\ f.op = "gradient" =>
               /\ f.ret.st = "ok" /\ f.ret.val = (0 - f.truth) * m
               /\ z = One2 => (f.ret.br = "else" /\ f.ret.val = 0)
               /\ z > One2 => f.ret.val = 0

\* evaluate returned at the margin boundary, and inside the margin.
SquaredHingeContractWitness ==
  \E t, u \in Threads :
    /\ In(t, "SquaredHingeLoss", "evaluate") /\ Returned(t)
    /\ frame[t].pred * frame[t].truth = One2
    /\ In(u, "SquaredHingeLoss", "evaluate") /\ Returned(u)
    /\ frame[u].pred * frame[u].truth < One2 /\ frame[u].ret.val > 0

\* C7.  Square: evaluate == (truth - pred)^2 and gradient == -2 * (truth - pred)
\* with no failure for any input; evaluate(3,5) == 4, gradient(3,5) == -4;
\* predict is the identity.
SquareContract ==
  \A t \in Threads :
    LET f == frame[t]
    IN  (Finished(t) /\ VptrOf(t) = "SquareLoss") =>
          /\ f.ret.st = "ok"
          /\ f.op = "evaluate" =>
               /\ f.ret.val = (f.truth - f.pred) * (f.truth - f.pred)
               /\ (f.pred = 3 * One /\ f.truth = 5 * One) => f.ret.val = 4 * One2
          /\ f.op = "gradient" =>
               /\ f.ret.val = 0 - 2 * (f.truth - f.pred)
               /\ (f.pred = 3 * One /\ f.truth = 5 * One) => f.ret.val = 0 - 4 * One
          /\ f.op = "predict" => f.ret.val = f.pred

\* evaluate(3,5) and gradient(3,5) both returned.
SquareContractWitness ==
  \E t, u \in Threads :
    /\ In(t, "SquareLoss", "evaluate") /\ In(u, "SquareLoss", "gradient")
    /\ frame[t].pred = 3 * One /\ frame[t].truth = 5 * One
    /\ frame[u].pred = 3 * One /\ frame[u].truth = 5 * One

Regime(a, one) ==
  IF a > Thresh * one THEN ">18"
  ELSE IF a < 0 - Thresh * one THEN "<-18"
  ELSE "else"

\* The library function each regime's formula applies, per the variant table.
RegimeFn(vptr, op, regime) ==
  CASE op = "evaluate" /\ regime = ">18" -> "exp"
    [] op = "evaluate" /\ regime = "<-18" -> "none"
    [] op = "evaluate" /\ regime = "else" -> "log1pexp"
    [] op = "gradient" /\ regime = "else" -> "inv1pexp"
    [] op = "gradient" /\ regime = ">18" ->
         IF vptr = "LogLoss" THEN "exp" ELSE "none"
    [] op = "gradient" /\ regime = "<-18" ->
         IF vptr = "LogLoss" THEN "none" ELSE "exp"

Magnitude(t) ==
  IF VptrOf(t) = "LogLoss" THEN Regime(frame[t].pred * frame[t].truth, One2)
  ELSE Regime(frame[t].pred, One)

\* C9.  CrossEntropy (on a = pred) and Log (on z = pred*truth) use the
\* large-positive formula exactly when the magnitude is > 18, the
\* large-negative one exactly when it is < -18 and the exact formula on
\* [-18, 18]; evaluate and gradient of a variant pick the same regime for the
\* same input.
MagnitudeBranches ==
  /\ \A t \in Threads :
       ( /\ Finished(t) /\ VptrOf(t) \in {"CrossEntropyLoss", "LogLoss"}
         /\ frame[t].op \in {"evaluate", "gradient"} ) =>
         /\ frame[t].ret.br = Magnitude(t)
         /\ frame[t].ret.val.fn = RegimeFn(VptrOf(t), frame[t].op, Magnitude(t))
  /\ \A t, u \in Threads :
       ( /\ Finished(t) /\ Finished(u)
         /\ VptrOf(t) \in {"CrossEntropyLoss", "LogLoss"}
         /\ frame[t].op = "evaluate" /\ frame[u].op = "gradient"
         /\ frame[t].pred = frame[u].pred /\ frame[t].truth = frame[u].truth ) =>
         frame[t].ret.br = frame[u].ret.br

\* Log's evaluate and gradient both returned at z == 18 exactly.
MagnitudeBranchesWitness ==
  \E t, u \in Threads :
    /\ In(t, "LogLoss", "evaluate") /\ In(u, "LogLoss", "gradient")
    /\ frame[t].pred * frame[t].truth = Thresh * One2
    /\ frame[u].pred = frame[t].pred /\ frame[u].truth = frame[t].truth
    /\ frame[t].ret.br = "else"

\* A step that moves a thread's frame moves no other frame and writes neither
\* the shared objects nor the configuration.
OwnFrameOnly ==
  \A t \in Threads :
    frame'[t] # frame[t] =>
      /\ insts' = insts /\ lt' = lt
      /\ \A u \in Threads \ {t} : frame'[u] = frame[u]

\* A thread inside a call stays able to take its step whatever step another
\* thread takes, unless that step aborts the process.
NeverBlocked ==
  \A t \in Threads :
    (CanRun(t) /\ frame'[t] = frame[t]) => (CanRun(t)' \/ halted')

SameCall(i, j) ==
  ProbeScript[i].op = ProbeScript[j].op /\ ProbeScript[i].dx = ProbeScript[j].dx

====
